---- MODULE Spec2Model ----
(***************************************************************************)
(* Model of the codebase-ai pipeline: the chunk extractor and indexer      *)
(* (utils/indexer.py), the chunk store (utils/database.py) and the patch   *)
(* applier (utils/query_processor.py).                                     *)
(*                                                                         *)
(* A text (a Python str / bytes) is a sequence of tokens: a token is       *)
(* either the newline "\n" or the text of one non-empty line; two line      *)
(* tokens are never adjacent.  "x = 1\n\ny = 2" is                          *)
(* <<"x = 1", "\n", "\n", "y = 2">>.  Equality of texts is byte equality.   *)
(* Only Python (.py) sources are modelled.                                 *)
(***************************************************************************)
EXTENDS Integers, Sequences, FiniteSets, TLC

NL == "\n"

\* Bounds of the model.
MaxLines == 4
MaxIndexRuns == 3
MaxEdits == 2
MaxBatch == 2

----------------------------------------------------------------------------
(* str operations used by the code *)

RECURSIVE SplitFrom(_, _, _, _)
SplitFrom(t, i, cur, acc) ==
    IF i > Len(t) THEN Append(acc, cur)
    ELSE IF t[i] = NL THEN SplitFrom(t, i + 1, "", Append(acc, cur))
    ELSE SplitFrom(t, i + 1, t[i], acc)

\* str.split('\n')
Split(t) == SplitFrom(t, 1, "", <<>>)

\* str.splitlines(): as split('\n'), without the empty piece after a final newline
SplitLines(t) ==
    LET s == Split(t)
    IN  IF s[Len(s)] = "" THEN SubSeq(s, 1, Len(s) - 1) ELSE s

RECURSIVE JoinFrom(_, _)
JoinFrom(L, i) ==
    IF i > Len(L) THEN <<>>
    ELSE (IF i > 1 THEN <<NL>> ELSE <<>>)
         \o (IF L[i] = "" THEN <<>> ELSE <<L[i]>>)
         \o JoinFrom(L, i + 1)

\* '\n'.join(L)
Join(L) == JoinFrom(L, 1)

\* str.strip() of one line: the only indented line of the alphabet is "    pass"
StripLine(l) == IF l = "    pass" THEN "pass" ELSE l

RECURSIVE DropLeadingNL(_)
DropLeadingNL(t) ==
    IF t # <<>> /\ t[1] = NL THEN DropLeadingNL(Tail(t)) ELSE t

RECURSIVE DropTrailingNL(_)
DropTrailingNL(t) ==
    IF t # <<>> /\ t[Len(t)] = NL THEN DropTrailingNL(SubSeq(t, 1, Len(t) - 1)) ELSE t

\* str.strip() of a text: leading and trailing whitespace (newlines, indentation) go
Strip(t) ==
    LET u == DropTrailingNL(DropLeadingNL(t))
    IN  IF u = <<>> THEN u
        ELSE IF Len(u) = 1 THEN <<StripLine(u[1])>>
        ELSE <<StripLine(u[1])>> \o SubSeq(u, 2, Len(u))

\* hashlib.md5(content.encode()).hexdigest(): a digest determined by the content
Md5(content) == [md5 |-> content]

----------------------------------------------------------------------------
(* The syntax tree tree-sitter gives for a Python source, by line *)

Kind(l) ==
    CASE l = ""              -> "blank"
      [] l = "# note"        -> "comment"
      [] l = "import os"     -> "import_statement"
      [] l = "@deco"         -> "decorator"
      [] l = "def f():"      -> "function_definition"
      [] l = "def g(): pass" -> "function_definition"
      [] l = "class C:"      -> "class_definition"
      [] l = "    pass"      -> "body"
      [] l = "x = 1"         -> "assignment"
      [] l = "y = 2"         -> "assignment"
      [] OTHER               -> "expression_statement"

\* a definition header whose body is the indented lines that follow it
IsHeader(l) == l \in {"def f():", "class C:"}
IsDef(l) == Kind(l) \in {"function_definition", "class_definition"}

\* _get_node_name: the text of the first identifier child
NodeName(l) ==
    CASE l = "def f():"      -> "f"
      [] l = "def g(): pass" -> "g"
      [] l = "class C:"      -> "C"
      [] OTHER               -> ""

RECURSIVE BodyEnd(_, _)
BodyEnd(lines, j) ==
    IF IsHeader(lines[j]) \/ Kind(lines[j]) = "body"
    THEN IF j < Len(lines) /\ Kind(lines[j + 1]) = "body" THEN BodyEnd(lines, j + 1) ELSE j
    ELSE j

RECURSIVE DecoratedDef(_, _)
\* index of the definition a run of decorators starting at i decorates (0: none)
DecoratedDef(lines, i) ==
    IF i > Len(lines) THEN 0
    ELSE IF Kind(lines[i]) = "decorator" THEN DecoratedDef(lines, i + 1)
    ELSE IF IsDef(lines[i]) THEN i
    ELSE 0

\* a source the parser reads without error nodes: indented lines follow a
\* header, a header has a body, decorators are followed by a definition
WellFormed(lines) ==
    \A i \in 1..Len(lines) :
        /\ Kind(lines[i]) = "body" =>
              i > 1 /\ (IsHeader(lines[i - 1]) \/ Kind(lines[i - 1]) = "body")
        /\ IsHeader(lines[i]) => i < Len(lines) /\ Kind(lines[i + 1]) = "body"
        /\ Kind(lines[i]) = "decorator" => DecoratedDef(lines, i) # 0

RECURSIVE WalkFrom(_, _)
\* the nodes walk_tree dispatches on, in the order it visits them (a node
\* before its children); rows are 0-based as tree-sitter's start_point[0]
WalkFrom(lines, i) ==
    IF i > Len(lines) THEN <<>>
    ELSE LET k == Kind(lines[i])
         IN  IF k = "decorator" /\ DecoratedDef(lines, i) # 0
             THEN LET j == DecoratedDef(lines, i)
                      e == BodyEnd(lines, j)
                  IN  << [type |-> "decorated_definition", start_row |-> i - 1,
                          end_row |-> e - 1, name |-> NodeName(lines[j]),
                          inner |-> Kind(lines[j])],
                         [type |-> Kind(lines[j]), start_row |-> j - 1,
                          end_row |-> e - 1, name |-> NodeName(lines[j]),
                          inner |-> Kind(lines[j])] >>
                      \o WalkFrom(lines, e + 1)
             ELSE IF IsDef(lines[i])
             THEN LET e == BodyEnd(lines, i)
                  IN  << [type |-> k, start_row |-> i - 1, end_row |-> e - 1,
                          name |-> NodeName(lines[i]), inner |-> k] >>
                      \o WalkFrom(lines, e + 1)
             ELSE IF k = "assignment"
             THEN << [type |-> k, start_row |-> i - 1, end_row |-> i - 1,
                      name |-> "", inner |-> k] >>
                  \o WalkFrom(lines, i + 1)
             ELSE WalkFrom(lines, i + 1)

\* collect_imports: the rows of the import statements
ImportRows(lines) == { i - 1 : i \in { n \in 1..Len(lines) : Kind(lines[n]) = "import_statement" } }

SetMin(S) == CHOOSE x \in S : \A y \in S : x <= y
SetMax(S) == CHOOSE x \in S : \A y \in S : x >= y

\* source_code[start_byte:end_byte] of a node that spans whole rows
RowsText(lines, start_row, end_row) == Join(SubSeq(lines, start_row + 1, end_row + 1))

----------------------------------------------------------------------------
(* CodebaseIndexer._index_file: the chunks handed to _store_chunk, in order. *)
(* An extraction state is [processed: set of line numbers, out: chunks].   *)

NewChunk(content, start_line, end_line, type, name) ==
    [content |-> content, hash |-> Md5(content), start_line |-> start_line,
     end_line |-> end_line, type |-> type, name |-> name]

\* the imports block of _index_file
ImportChunk(lines, st) ==
    LET rows == ImportRows(lines)
    IN  IF rows = {} THEN st
        ELSE LET s == SetMin(rows)
                 e == SetMax(rows)
             IN  [processed |-> st.processed \cup ((s + 1)..(e + 1)),
                  out |-> Append(st.out,
                             NewChunk(RowsText(lines, s, e), s + 1, e + 1, "Import", "imports"))]

\* the guard of _process_node and _process_decorated
AlreadyProcessed(node, processed) == node.start_row \in processed

ProcessNode(lines, st, node, chunk_type) ==
    IF AlreadyProcessed(node, st.processed) THEN st
    ELSE [processed |-> st.processed \cup ((node.start_row + 1)..(node.end_row + 1)),
          out |-> Append(st.out,
                     NewChunk(RowsText(lines, node.start_row, node.end_row),
                              node.start_row + 1, node.end_row + 1, chunk_type,
                              IF chunk_type \in {"FunctionDef", "ClassDef"}
                              THEN node.name ELSE "imports"))]

ProcessDecorated(lines, st, node) ==
    IF AlreadyProcessed(node, st.processed) THEN st
    ELSE [processed |-> st.processed \cup ((node.start_row + 1)..(node.end_row + 1)),
          out |-> Append(st.out,
                     NewChunk(RowsText(lines, node.start_row, node.end_row),
                              node.start_row + 1, node.end_row + 1,
                              IF node.inner = "function_definition"
                              THEN "FunctionDef" ELSE "ClassDef",
                              node.name))]

\* one dispatch of walk_tree
WalkNode(lines, st, node) ==
    CASE node.type = "decorated_definition" -> ProcessDecorated(lines, st, node)
      [] node.type = "function_definition"  -> ProcessNode(lines, st, node, "FunctionDef")
      [] node.type = "class_definition"     -> ProcessNode(lines, st, node, "ClassDef")
      [] node.type = "assignment"           -> ProcessNode(lines, st, node, "Statement")
      [] OTHER                              -> st

RECURSIVE WalkTree(_, _, _, _)
WalkTree(lines, nodes, n, st) ==
    IF n > Len(nodes) THEN st
    ELSE WalkTree(lines, nodes, n + 1, WalkNode(lines, st, nodes[n]))

\* the chunk _process_remaining_lines closes
SweepChunk(chunk_lines, start_line) ==
    NewChunk(Strip(Join(chunk_lines)), start_line,
             start_line + Len(chunk_lines) - 1, "Statement", "code_block")

\* the test that closes a chunk in _process_remaining_lines
EndsChunk(lines, i) == lines[i] = "" \/ i = Len(lines)

RECURSIVE SweepFrom(_, _, _, _, _, _)
SweepFrom(lines, i, processed, chunk_lines, start_line, out) ==
    IF i > Len(lines) THEN out
    ELSE IF i \in processed
    THEN SweepFrom(lines, i + 1, processed, chunk_lines, start_line, out)
    ELSE IF chunk_lines = <<>> /\ Kind(lines[i]) \in {"blank", "comment"}
    THEN SweepFrom(lines, i + 1, processed, chunk_lines, start_line, out)
    ELSE LET start == IF chunk_lines = <<>> THEN i ELSE start_line
             cl == Append(chunk_lines, lines[i])
         IN  IF EndsChunk(lines, i)
             THEN SweepFrom(lines, i + 1, processed, <<>>, 0,
                            IF \E n \in 1..Len(cl) : cl[n] # ""
                            THEN Append(out, SweepChunk(cl, start)) ELSE out)
             ELSE SweepFrom(lines, i + 1, processed, cl, start, out)

ProcessRemainingLines(lines, st) ==
    SweepFrom(lines, 1, st.processed, <<>>, 0, st.out)

\* _index_file of a .py file: the chunks emitted for the source text
EmittedChunks(text) ==
    LET lines == Split(text)
        st0 == ImportChunk(lines, [processed |-> {}, out |-> <<>>])
        st1 == WalkTree(lines, WalkFrom(lines, 1), 1, st0)
    IN  ProcessRemainingLines(lines, st1)

----------------------------------------------------------------------------
(* Source texts the extractor is applied to *)

ExtractAlphabet ==
    {"", "# note", "import os", "@deco", "def f():", "class C:", "    pass", "x = 1",
     "print(x)"}

RECURSIVE SeqsUpTo(_, _)
SeqsUpTo(S, n) ==
    IF n = 0 THEN {<<>>}
    ELSE LET prev == SeqsUpTo(S, n - 1)
         IN  prev \cup { Append(s, x) : s \in { p \in prev : Len(p) = n - 1 }, x \in S }

\* texts of at most MaxLines lines, with or without a final newline
SourceTexts ==
    LET ls == { L \in SeqsUpTo(ExtractAlphabet, MaxLines) : WellFormed(L) }
    IN  { Join(L) : L \in ls } \cup { Join(L) \o <<NL>> : L \in ls }

----------------------------------------------------------------------------
(* EmbeddingDB: the chroma collection, as its entries in insertion order.  *)
(* The embedding of an entry is a function of its document and is left out. *)

\* EmbeddingDB.chunk_exists
ChunkExists(store, chunk_hash) == \E n \in 1..Len(store) : store[n].id = chunk_hash

\* collection.add of one entry: chroma ignores an add whose id is already stored
CollectionAdd(store, entry) ==
    IF \E n \in 1..Len(store) : store[n].id = entry.id THEN store ELSE Append(store, entry)

\* a store_chunk that numbers its entries instead of keying them by the hash
DbStoreChunkSerialIds(store, file_path, chunk_hash, chunk_type, name, start_line, end_line, content) ==
    Append(store, [id |-> [serial |-> Len(store)], file_path |-> file_path,
                   chunk_type |-> chunk_type, name |-> name, start_line |-> start_line,
                   end_line |-> end_line, content |-> content])

\* a store_chunk that replaces the entry stored under the id (an upsert)
DbStoreChunkUpsert(store, file_path, chunk_hash, chunk_type, name, start_line, end_line, content) ==
    LET entry == [id |-> chunk_hash, file_path |-> file_path, chunk_type |-> chunk_type,
                  name |-> name, start_line |-> start_line, end_line |-> end_line,
                  content |-> content]
    IN  IF \E n \in 1..Len(store) : store[n].id = chunk_hash
        THEN [n \in 1..Len(store) |-> IF store[n].id = chunk_hash THEN entry ELSE store[n]]
        ELSE Append(store, entry)

\* EmbeddingDB.store_chunk
DbStoreChunk(store, file_path, chunk_hash, chunk_type, name, start_line, end_line, content) ==
    CollectionAdd(store, [id |-> chunk_hash, file_path |-> file_path,
                          chunk_type |-> chunk_type, name |-> name,
                          start_line |-> start_line, end_line |-> end_line,
                          content |-> content])

\* EmbeddingDB.get_chunk_by_location: the first entry of the file whose lines
\* contain the line; the Optional result is a set of at most one entry
GetChunkByLocation(store, file_path, line_number) ==
    LET hits == { n \in 1..Len(store) :
                    /\ store[n].file_path = file_path
                    /\ store[n].start_line <= line_number
                    /\ line_number <= store[n].end_line }
    IN  IF hits = {} THEN {} ELSE { store[SetMin(hits)] }

----------------------------------------------------------------------------
(* CodebaseIndexer *)

\* a _store_chunk that writes without asking chunk_exists first
StoreChunkUnchecked(store, file_path, chunk) ==
    DbStoreChunkUpsert(store, file_path, chunk.hash, chunk.type, chunk.name,
                       chunk.start_line, chunk.end_line, chunk.content)

\* CodebaseIndexer._store_chunk; file_path is the path relative to the project
StoreChunk(store, file_path, chunk) ==
    IF ChunkExists(store, chunk.hash) THEN store
    ELSE DbStoreChunk(store, file_path, chunk.hash, chunk.type, chunk.name,
                      chunk.start_line, chunk.end_line, chunk.content)

RECURSIVE StoreAll(_, _, _, _)
StoreAll(store, file_path, chunks, n) ==
    IF n > Len(chunks) THEN store
    ELSE StoreAll(StoreChunk(store, file_path, chunks[n]), file_path, chunks, n + 1)

\* CodebaseIndexer._index_file: every emitted chunk goes through _store_chunk
IndexFile(store, file_path, text) == StoreAll(store, file_path, EmittedChunks(text), 1)

RECURSIVE IndexFiles(_, _, _, _)
\* CodebaseIndexer.index over the discovered files, in the order discovered
IndexFiles(store, fs, order, n) ==
    IF n > Len(order) THEN store
    ELSE IndexFiles(IndexFile(store, order[n], fs[order[n]]), fs, order, n + 1)

\* the files of the project (_discover_files), in either order rglob may give
FileNames == {"a.py", "b.py"}
DiscoverOrders == { <<"a.py", "b.py">>, <<"b.py", "a.py">> }

----------------------------------------------------------------------------
(* QueryProcessor: the patch applier *)

\* list[:k] and list[k:] of Python, negative k counted from the end
PyIndex(L, k) ==
    IF k < 0 THEN (IF Len(L) + k < 0 THEN 0 ELSE Len(L) + k)
    ELSE IF k > Len(L) THEN Len(L) ELSE k
SliceTo(L, k) == SubSeq(L, 1, PyIndex(L, k))
SliceFrom(L, k) == SubSeq(L, PyIndex(L, k) + 1, Len(L))

\* the lines _apply_single_change puts together (lines 238-247)
ModifiedLines(text, change) ==
    LET lines == SplitLines(text)
        start_idx == change.start_line - 1
        end_idx == change.end_line - 1
        new_lines == SplitLines(change.new_content)
    IN  SliceTo(lines, start_idx) \o new_lines \o SliceFrom(lines, end_idx + 1)

\* what _apply_single_change writes: write_text('\n'.join(modified_lines))
ApplySingleChange(text, change) == Join(ModifiedLines(text, change))

\* write_text opens the file for writing, which empties it, and then writes:
\* a write that fails part-way leaves a proper prefix of the data
PartialWrites(data) == { SubSeq(data, 1, k) : k \in 0..(Len(data) - 1) }

\* _update_file_index: self.db.remove_chunks_for_file is the first call made, and
\* EmbeddingDB defines no such method; the AttributeError is caught at line 277,
\* so neither a record is removed nor the indexer (lines 272-273) run
UpdateFileIndex(store, file_path, text) == store

\* the for loop of _apply_changes goes to the next change
NextChange(i, n) == i + 1

\* an exception that ends the batch
AfterExceptionAbort(i, n) == n + 1

\* the except clause of _apply_changes is inside the loop: the next change is tried
AfterException(i, n) == NextChange(i, n)

\* the invariant the spec asks of a proposal before it is applied
ValidBounds(change, text) ==
    /\ 1 <= change.start_line
    /\ change.start_line <= change.end_line
    /\ change.end_line <= Len(SplitLines(text))

----------------------------------------------------------------------------
VARIABLES
    src, emitted, xpc,          \* the extractor alone: source, emitted chunks, position
    files, store,               \* the project: file name -> text; the collection
    runs, edits,                \* index runs and outside edits so far
    indexed, indexedFiles,      \* whether index() has run, and the files it last read
    prevStore, rerun,           \* the collection before the last index(); whether that
                                \* run read the same files as the run before it
    firstSight,                 \* per content hash, where index() first met it
    pc, batch, idx,             \* the query processor: position, changes, loop index
    decision, shown,            \* the answer at the prompt; the files and the
                                \* collection when the changes were shown
    log,                        \* per change tried, what was done to its file
    wpath, wq, wpc,             \* two indexers: the file each indexes, its chunks
                                \* still to store, its position in _store_chunk
    firstWriter, lostAdds,      \* per id, the entry first added; the adds ignored
    apc, achange, aread,        \* two patch appliers: position, change, text read
    project_path, tree,         \* file discovery: the root's path; the files under it
    gitignore,                  \* the patterns of the root's .gitignore
    discovered, visited, dpc    \* the files _discover_files returned; those handed
                                \* to _index_file; the position of index()

extractVars == <<src, emitted, xpc>>
projectVars == <<files, store>>
indexVars == <<runs, edits, indexed, indexedFiles, prevStore, rerun, firstSight>>
patchVars == <<pc, batch, idx, decision, shown, log>>
raceVars == <<wpath, wq, wpc, firstWriter, lostAdds, apc, achange, aread>>
discoverVars == <<project_path, tree, gitignore, discovered, visited, dpc>>
vars == <<extractVars, projectVars, indexVars, patchVars, raceVars, discoverVars>>

NoText == <<>>

ExtractIdle == src = NoText /\ emitted = <<>> /\ xpc = "off"
\* no index() is under way: the project of a.py and b.py under a plain root
DiscoverIdle ==
    /\ project_path = <<"/", "home", "proj">> /\ tree = { <<"a.py">>, <<"b.py">> }
    /\ gitignore = {} /\ discovered = {} /\ visited = {} /\ dpc = "off"
IndexIdle ==
    /\ runs = 0 /\ edits = 0 /\ indexed = FALSE /\ indexedFiles = [f \in FileNames |-> NoText]
    /\ prevStore = <<>> /\ rerun = FALSE /\ firstSight = <<>>
Workers == {"p1", "p2"}

StoreRaceIdle ==
    /\ wpath = [w \in Workers |-> "a.py"] /\ wq = [w \in Workers |-> <<>>]
    /\ wpc = [w \in Workers |-> "off"] /\ firstWriter = <<>> /\ lostAdds = {}
PatchRaceIdle ==
    /\ apc = [w \in Workers |-> "off"] /\ aread = [w \in Workers |-> NoText]
    /\ achange = [w \in Workers |-> [file_path |-> "a.py", start_line |-> 1, end_line |-> 1,
                                      new_content |-> NoText, has_content |-> TRUE]]
PatchIdle ==
    /\ pc = "off" /\ batch = <<>> /\ idx = 0 /\ decision = "none"
    /\ shown = [files |-> [f \in FileNames |-> NoText], store |-> <<>>]
    /\ log = <<>>

----------------------------------------------------------------------------
(* The extractor applied to one source *)

ExtractInit ==
    /\ src \in SourceTexts
    /\ emitted = <<>>
    /\ xpc = "read"
    /\ files = [f \in FileNames |-> NoText] /\ store = <<>>
    /\ IndexIdle /\ DiscoverIdle
    /\ PatchIdle
    /\ StoreRaceIdle /\ PatchRaceIdle

\* _index_file run on the source
Extract ==
    /\ xpc = "read"
    /\ emitted' = EmittedChunks(src)
    /\ xpc' = "extracted"
    /\ UNCHANGED <<src, projectVars, indexVars, patchVars, raceVars, discoverVars>>

SpecExtract == ExtractInit /\ [][Extract]_vars

\* the lines of the source that are neither blank nor comment-only
CodeLines(text) ==
    LET lines == Split(text)
    IN  { i \in 1..Len(lines) : Kind(lines[i]) \notin {"blank", "comment"} }

CoveredLines(chunks) ==
    UNION { chunks[n].start_line..chunks[n].end_line : n \in 1..Len(chunks) }

\* C6: the line ranges of the emitted chunks cover every line of the file that
\* is neither blank nor comment-only.
ExtractionCoverage ==
    xpc = "extracted" => CodeLines(src) \subseteq CoveredLines(emitted)

----------------------------------------------------------------------------
(* Index runs over a project whose files are edited between runs *)

IndexTexts ==
    { <<"import os", NL, "x = 1", NL>>,
      <<"x = 1", NL, NL, "print(x)", NL>>,
      <<"print(x)", NL, "x = 1">>,
      <<"def g(): pass", NL, NL, "x = 1", NL>>,
      <<"x = 1", NL, "x = 1", NL>> }

RECURSIVE SightAll(_, _, _, _)
\* the first place each content hash is met, over the chunks of one file
SightAll(seen, file_path, chunks, n) ==
    IF n > Len(chunks) THEN seen
    ELSE SightAll(IF \E k \in 1..Len(seen) : seen[k].id = chunks[n].hash
                  THEN seen
                  ELSE Append(seen, [id |-> chunks[n].hash, file_path |-> file_path,
                                     start_line |-> chunks[n].start_line,
                                     end_line |-> chunks[n].end_line]),
                  file_path, chunks, n + 1)

RECURSIVE SightFiles(_, _, _, _)
SightFiles(seen, fs, order, n) ==
    IF n > Len(order) THEN seen
    ELSE SightFiles(SightAll(seen, order[n], EmittedChunks(fs[order[n]]), 1), fs, order, n + 1)

IndexInit ==
    /\ files \in [FileNames -> IndexTexts]
    /\ store = <<>>
    /\ IndexIdle
    /\ ExtractIdle /\ DiscoverIdle
    /\ PatchIdle
    /\ StoreRaceIdle /\ PatchRaceIdle

\* index.py / main.py: CodebaseIndexer(project_path).index() on the existing index
IndexRun(order) ==
    /\ runs < MaxIndexRuns
    /\ store' = IndexFiles(store, files, order, 1)
    /\ firstSight' = SightFiles(firstSight, files, order, 1)
    /\ prevStore' = store
    /\ rerun' = (indexed /\ indexedFiles = files)
    /\ indexed' = TRUE
    /\ indexedFiles' = files
    /\ runs' = runs + 1
    /\ UNCHANGED <<files, edits, extractVars, discoverVars, patchVars, raceVars>>

\* main.py, "changes made recently": the index directory is removed, then index()
RebuildIndex(order) ==
    /\ runs < MaxIndexRuns
    /\ indexed
    /\ store' = IndexFiles(<<>>, files, order, 1)
    /\ firstSight' = SightFiles(<<>>, files, order, 1)
    /\ prevStore' = <<>>
    /\ rerun' = FALSE
    /\ indexedFiles' = files
    /\ runs' = runs + 1
    /\ UNCHANGED <<files, edits, indexed, extractVars, discoverVars, patchVars, raceVars>>

\* the user edits a file outside the program
EditFile(f, t) ==
    /\ edits < MaxEdits
    /\ t # files[f]
    /\ files' = [files EXCEPT ![f] = t]
    /\ edits' = edits + 1
    /\ UNCHANGED <<store, runs, indexed, indexedFiles, prevStore, rerun, firstSight, extractVars, discoverVars, patchVars, raceVars>>

IndexNext ==
    \/ \E order \in DiscoverOrders : IndexRun(order)
    \/ \E order \in DiscoverOrders : RebuildIndex(order)
    \/ \E f \in FileNames, t \in IndexTexts : EditFile(f, t)

SpecIndex == IndexInit /\ [][IndexNext]_vars

StoreIds(st) == { st[n].id : n \in 1..Len(st) }

\* C4: an index() over the files the previous index() read adds no record: the
\* ids and the number of records are those before the run.
DedupIdempotence ==
    rerun => StoreIds(store) = StoreIds(prevStore) /\ Len(store) = Len(prevStore)

\* a second run over unchanged files has happened, on a store that holds records
DedupIdempotenceWitness == rerun /\ Len(store) > 1

\* C5: equal contents have one hash and one record, under the hash of the
\* content; every content met has its record, and the record carries the file
\* and the lines of the first place the content was met.
HashIdentity ==
    /\ \A n, m \in 1..Len(store) :
          (store[n].content = store[m].content \/ store[n].id = store[m].id) => n = m
    /\ \A n \in 1..Len(store) : store[n].id = Md5(store[n].content)
    /\ \A k \in 1..Len(firstSight) :
          \E n \in 1..Len(store) :
              /\ store[n].id = firstSight[k].id
              /\ store[n].file_path = firstSight[k].file_path
              /\ store[n].start_line = firstSight[k].start_line
              /\ store[n].end_line = firstSight[k].end_line
    /\ Len(store) = Len(firstSight)

\* a content stored from one file is met again in the other file, elsewhere
HashIdentityWitness ==
    /\ runs > 1
    /\ \E n \in 1..Len(store) : \E f \in FileNames :
          LET cs == EmittedChunks(files[f])
          IN  \E k \in 1..Len(cs) :
                  /\ cs[k].hash = store[n].id
                  /\ f # store[n].file_path
                  /\ cs[k].start_line # store[n].start_line

----------------------------------------------------------------------------
(* main.py: the project is indexed, then a query is processed; the changes   *)
(* the language model proposes for the query are any list of changes.  One  *)
(* call of process_query is followed to its return.                         *)

ProjectFiles ==
    { [f \in FileNames |-> IF f = "a.py" THEN <<"import os", NL, "x = 1", NL, "print(x)", NL>>
                                        ELSE <<"x = 1", NL>>] }

\* a change is the JSON object of the response; has_content is whether it has
\* the key 'new_content' ('reasoning' is only printed)
Change(file_path, start_line, end_line, new_content) ==
    [file_path |-> file_path, start_line |-> start_line, end_line |-> end_line,
     new_content |-> new_content, has_content |-> TRUE]

Changes ==
    { Change(f, r[1], r[2], IF r[2] = 1 THEN <<"y = 2">> ELSE <<"x = 1", NL, "print(x)">>) :
          f \in FileNames, r \in { <<1, 1>>, <<2, 1>>, <<0, 1>>, <<1, 3>> } }
    \cup { Change("gone.py", 1, 1, <<"y = 2">>) }
    \cup { [Change("a.py", 1, 1, <<>>) EXCEPT !.has_content = FALSE] }

Batches == { b \in SeqsUpTo(Changes, MaxBatch) : b # <<>> }

Init ==
    /\ files \in ProjectFiles
    /\ store = <<>>
    /\ pc = "start" /\ batch = <<>> /\ idx = 0 /\ decision = "none"
    /\ shown = [files |-> [f \in FileNames |-> NoText], store |-> <<>>]
    /\ log = <<>>
    /\ IndexIdle
    /\ ExtractIdle /\ DiscoverIdle
    /\ StoreRaceIdle /\ PatchRaceIdle

\* main.py lines 82-85: no index yet, the project is indexed
StartupIndex(order) ==
    /\ pc = "start"
    /\ store' = IndexFiles(store, files, order, 1)
    /\ pc' = "ready"
    /\ UNCHANGED <<files, batch, idx, decision, shown, log, indexVars, extractVars, discoverVars, raceVars>>

\* process_query up to the prompt of _show_changes_and_confirm: chunks were
\* found, the response held changes, they are shown
ProcessQuery(changes) ==
    /\ pc = "ready"
    /\ store # <<>>
    /\ batch' = changes
    /\ shown' = [files |-> files, store |-> store]
    /\ decision' = "none"
    /\ log' = <<>>
    /\ idx' = 0
    /\ pc' = "previewed"
    /\ UNCHANGED <<files, store, indexVars, extractVars, discoverVars, raceVars>>

\* the answer is y or yes: _apply_changes enters its loop
ConfirmYes ==
    /\ pc = "previewed"
    /\ decision' = "y"
    /\ idx' = 1
    /\ pc' = "applying"
    /\ UNCHANGED <<files, store, batch, shown, log, indexVars, extractVars, discoverVars, raceVars>>

\* a _apply_changes that goes on into its loop after a negative answer
ConfirmNoFallsThrough ==
    /\ pc = "previewed"
    /\ decision' = "n"
    /\ idx' = 1
    /\ pc' = "applying"
    /\ UNCHANGED <<files, store, batch, shown, log, indexVars, extractVars, discoverVars, raceVars>>

\* the answer is n or no: "Changes cancelled by user.", _apply_changes returns
ConfirmNo ==
    /\ pc = "previewed"
    /\ decision' = "n"
    /\ pc' = "cancelled"
    /\ UNCHANGED <<files, store, batch, idx, shown, log, indexVars, extractVars, discoverVars, raceVars>>

Entry(outcome, before, after, indexAfter) ==
    [outcome |-> outcome, before |-> before, after |-> after, indexAfter |-> indexAfter]

\* one turn of the loop: the file of the change does not exist
ApplyNotFound ==
    /\ pc = "applying" /\ idx <= Len(batch)
    /\ batch[idx].file_path \notin DOMAIN files
    /\ log' = Append(log, Entry("not_found", NoText, NoText, store))
    /\ idx' = NextChange(idx, Len(batch))
    /\ UNCHANGED <<files, store, pc, batch, decision, shown, indexVars, extractVars, discoverVars, raceVars>>

\* one turn of the loop: change['new_content'] raises KeyError after the file
\* was read; the except clause reports it
ApplyKeyError ==
    /\ pc = "applying" /\ idx <= Len(batch)
    /\ batch[idx].file_path \in DOMAIN files
    /\ ~batch[idx].has_content
    /\ LET f == batch[idx].file_path
       IN  log' = Append(log, Entry("key_error", files[f], files[f], store))
    /\ idx' = AfterException(idx, Len(batch))
    /\ UNCHANGED <<files, store, pc, batch, decision, shown, indexVars, extractVars, discoverVars, raceVars>>

\* an applier that splices into the text the file held when the changes were
\* shown, not into the text it holds when the change is reached
ApplyWrittenStale ==
    /\ pc = "applying" /\ idx <= Len(batch)
    /\ batch[idx].file_path \in DOMAIN files
    /\ batch[idx].has_content
    /\ LET f == batch[idx].file_path
           data == ApplySingleChange(shown.files[f], batch[idx])
           st == UpdateFileIndex(store, f, data)
       IN  /\ files' = [files EXCEPT ![f] = data]
           /\ store' = st
           /\ log' = Append(log, Entry("applied", files[f], data, st))
    /\ idx' = NextChange(idx, Len(batch))
    /\ UNCHANGED <<pc, batch, decision, shown, indexVars, extractVars, discoverVars, raceVars>>

\* one turn of the loop: the file is written, then _update_file_index is called
ApplyWritten ==
    /\ pc = "applying" /\ idx <= Len(batch)
    /\ batch[idx].file_path \in DOMAIN files
    /\ batch[idx].has_content
    /\ LET f == batch[idx].file_path
           data == ApplySingleChange(files[f], batch[idx])
           st == UpdateFileIndex(store, f, data)
       IN  /\ files' = [files EXCEPT ![f] = data]
           /\ store' = st
           /\ log' = Append(log, Entry("applied", files[f], data, st))
    /\ idx' = NextChange(idx, Len(batch))
    /\ UNCHANGED <<pc, batch, decision, shown, indexVars, extractVars, discoverVars, raceVars>>

\* one turn of the loop: write_text fails after it has begun to write; the
\* except clause reports it and _update_file_index is not called
ApplyWriteFailed ==
    /\ pc = "applying" /\ idx <= Len(batch)
    /\ batch[idx].file_path \in DOMAIN files
    /\ batch[idx].has_content
    /\ LET f == batch[idx].file_path
           data == ApplySingleChange(files[f], batch[idx])
       IN  \E part \in PartialWrites(data) :
              /\ files' = [files EXCEPT ![f] = part]
              /\ log' = Append(log, Entry("write_error", files[f], part, store))
    /\ idx' = AfterException(idx, Len(batch))
    /\ UNCHANGED <<store, pc, batch, decision, shown, indexVars, extractVars, discoverVars, raceVars>>

\* the loop is over: _apply_changes and process_query return
FinishBatch ==
    /\ pc = "applying" /\ idx > Len(batch)
    /\ pc' = "done"
    /\ UNCHANGED <<files, store, batch, idx, decision, shown, log, indexVars, extractVars, discoverVars, raceVars>>

Next ==
    \/ \E order \in DiscoverOrders : StartupIndex(order)
    \/ \E changes \in Batches : ProcessQuery(changes)
    \/ ConfirmYes
    \/ ConfirmNo
    \/ ApplyNotFound
    \/ ApplyKeyError
    \/ ApplyWritten
    \/ ApplyWriteFailed
    \/ FinishBatch

Spec == Init /\ [][Next]_vars

----------------------------------------------------------------------------
(* Properties of the patch applier *)

TouchedFile(n) == batch[n].file_path \in DOMAIN files /\ batch[n].has_content

\* C1: a change whose line range is not within the file as it is when the change
\* is reached (start_line > end_line, start_line < 1, or end_line past the last
\* line) is rejected: its file is not written.
BoundsRejection ==
    \A n \in 1..Len(log) :
        (TouchedFile(n) /\ ~ValidBounds(batch[n], log[n].before)) =>
            /\ log[n].outcome \notin {"applied", "write_error"}
            /\ log[n].after = log[n].before

\* C2: after a write that failed part-way the file holds what it held before
\* the change was tried.
RollbackCorrectness ==
    \A n \in 1..Len(log) :
        log[n].outcome = "write_error" => log[n].after = log[n].before

\* the lines of the written file that come from new_content
ChangedLines(change, before) ==
    LET first == Len(SliceTo(SplitLines(before), change.start_line - 1)) + 1
    IN  first..(first + Len(SplitLines(change.new_content)) - 1)

\* C3: when a change was applied to a file and _update_file_index has returned,
\* every changed line of code is located in a record extracted from the written
\* text, and every record of the file is a chunk of the written text.
ReindexConsistency ==
    \A n \in 1..Len(log) :
        log[n].outcome = "applied" =>
            LET f == batch[n].file_path
                chunks == EmittedChunks(log[n].after)
                IsChunk(r) == \E k \in 1..Len(chunks) :
                                 /\ chunks[k].content = r.content
                                 /\ chunks[k].start_line = r.start_line
                                 /\ chunks[k].end_line = r.end_line
                st == log[n].indexAfter
            IN  /\ \A L \in ChangedLines(batch[n], log[n].before) \cap CodeLines(log[n].after) :
                      /\ GetChunkByLocation(st, f, L) # {}
                      /\ \A r \in GetChunkByLocation(st, f, L) : IsChunk(r)
                /\ \A k \in 1..Len(st) : st[k].file_path = f => IsChunk(st[k])

\* C7: after a negative answer no file has been written and the collection is
\* as it was when the changes were shown; no change of the batch is tried, and
\* the processor stays where the answer left it.
Cancellation ==
    decision = "n" =>
        /\ pc = "cancelled"
        /\ files = shown.files
        /\ store = shown.store
        /\ log = <<>>

\* the changes were declined, among them one that would have rewritten a file
CancellationWitness ==
    /\ decision = "n"
    /\ \E n \in 1..Len(batch) :
          /\ batch[n].file_path \in DOMAIN files
          /\ batch[n].has_content
          /\ ApplySingleChange(files[batch[n].file_path], batch[n]) # files[batch[n].file_path]

----------------------------------------------------------------------------
(* Two indexers on one index: each runs _index_file on a file, and each      *)
(* _store_chunk is a chunk_exists followed, when it says no, by a store_chunk *)

\* whether collection.add raises for an id that is stored already: chroma logs
\* the add and ignores it
AddOfExistingIdRaises == FALSE

StoreRaceInit ==
    /\ files \in [FileNames -> IndexTexts]
    /\ store = <<>>
    /\ wpath \in [Workers -> FileNames]
    /\ wq = [w \in Workers |-> EmittedChunks(files[wpath[w]])]
    /\ wpc = [w \in Workers |-> "check"]
    /\ firstWriter = <<>>
    /\ lostAdds = {}
    /\ PatchRaceIdle
    /\ IndexIdle /\ ExtractIdle /\ DiscoverIdle /\ PatchIdle

\* _store_chunk, line 208: the hash is stored already, the chunk is done
RaceChunkExists(w) ==
    /\ wpc[w] = "check" /\ wq[w] # <<>>
    /\ ChunkExists(store, Head(wq[w]).hash)
    /\ wq' = [wq EXCEPT ![w] = Tail(wq[w])]
    /\ UNCHANGED <<store, wpath, wpc, firstWriter, lostAdds>>
    /\ UNCHANGED <<files, apc, achange, aread, indexVars, extractVars, discoverVars, patchVars>>

\* _store_chunk, line 208: the hash is not stored; the embedding is computed
RaceChunkAbsent(w) ==
    /\ wpc[w] = "check" /\ wq[w] # <<>>
    /\ ~ChunkExists(store, Head(wq[w]).hash)
    /\ wpc' = [wpc EXCEPT ![w] = "add"]
    /\ UNCHANGED <<store, wpath, wq, firstWriter, lostAdds>>
    /\ UNCHANGED <<files, apc, achange, aread, indexVars, extractVars, discoverVars, patchVars>>

\* _store_chunk, lines 214-223: db.store_chunk
RaceStoreChunk(w) ==
    /\ wpc[w] = "add"
    /\ LET c == Head(wq[w])
           present == ChunkExists(store, c.hash)
           st == DbStoreChunk(store, wpath[w], c.hash, c.type, c.name,
                              c.start_line, c.end_line, c.content)
       IN  /\ store' = st
           /\ firstWriter' = IF present THEN firstWriter
                             ELSE Append(firstWriter,
                                         [id |-> c.hash, worker |-> w, file_path |-> wpath[w],
                                          start_line |-> c.start_line, end_line |-> c.end_line,
                                          chunk_type |-> c.type, name |-> c.name,
                                          content |-> c.content])
           /\ lostAdds' = IF present THEN lostAdds \cup {[worker |-> w, id |-> c.hash]}
                          ELSE lostAdds
           /\ wpc' = [wpc EXCEPT ![w] = IF present /\ AddOfExistingIdRaises
                                        THEN "failed" ELSE "check"]
    /\ wq' = [wq EXCEPT ![w] = Tail(wq[w])]
    /\ UNCHANGED wpath
    /\ UNCHANGED <<files, apc, achange, aread, indexVars, extractVars, discoverVars, patchVars>>

StoreRaceNext ==
    \E w \in Workers : RaceChunkExists(w) \/ RaceChunkAbsent(w) \/ RaceStoreChunk(w)

SpecStoreRace == StoreRaceInit /\ [][StoreRaceNext]_vars

----------------------------------------------------------------------------
(* Two query processors on one project, each applying one change: the steps  *)
(* of _apply_single_change and _update_file_index, interleaved               *)

PatchRaceInit ==
    /\ files \in ProjectFiles
    /\ store = <<>>
    /\ achange \in [Workers -> { c \in Changes : c.file_path \in FileNames /\ c.has_content }]
    /\ apc = [w \in Workers |-> "read"]
    /\ aread = [w \in Workers |-> NoText]
    /\ StoreRaceIdle
    /\ IndexIdle /\ ExtractIdle /\ DiscoverIdle /\ PatchIdle

\* line 238: file_path.read_text()
PatchRead(w) ==
    /\ apc[w] = "read"
    /\ aread' = [aread EXCEPT ![w] = files[achange[w].file_path]]
    /\ apc' = [apc EXCEPT ![w] = "write"]
    /\ UNCHANGED <<files, store, achange>>
    /\ UNCHANGED <<wpath, wq, wpc, firstWriter, lostAdds, indexVars, extractVars, discoverVars, patchVars>>

\* lines 246-248: the text read is spliced and written
PatchWrite(w) ==
    /\ apc[w] = "write"
    /\ files' = [files EXCEPT ![achange[w].file_path] = ApplySingleChange(aread[w], achange[w])]
    /\ apc' = [apc EXCEPT ![w] = "reindex"]
    /\ UNCHANGED <<store, achange, aread>>
    /\ UNCHANGED <<wpath, wq, wpc, firstWriter, lostAdds, indexVars, extractVars, discoverVars, patchVars>>

\* line 177: _update_file_index
PatchReindex(w) ==
    /\ apc[w] = "reindex"
    /\ store' = UpdateFileIndex(store, achange[w].file_path, files[achange[w].file_path])
    /\ apc' = [apc EXCEPT ![w] = "finished"]
    /\ UNCHANGED <<files, achange, aread>>
    /\ UNCHANGED <<wpath, wq, wpc, firstWriter, lostAdds, indexVars, extractVars, discoverVars, patchVars>>

PatchRaceNext == \E w \in Workers : PatchRead(w) \/ PatchWrite(w) \/ PatchReindex(w)

SpecPatchRace == PatchRaceInit /\ [][PatchRaceNext]_vars

\* an applier is between reading its file and the return of _update_file_index
InCriticalSection(w) == apc[w] \in {"write", "reindex"}

\* C9: two patch applications to one file never overlap: while one applier is
\* between its read and the end of its re-index, no other applier is.
ExclusiveCriticalSection ==
    \A v, w \in Workers :
        (v # w /\ achange[v].file_path = achange[w].file_path) =>
            ~(InCriticalSection(v) /\ InCriticalSection(w))

----------------------------------------------------------------------------
(* _apply_changes on one confirmed change, over the texts a file can hold:  *)
(* the project is indexed and the change is at the prompt.                  *)

SpliceAlphabet == {"", "x = 1", "print(x)"}

\* a.py holds at most MaxLines lines, with or without a final newline
SpliceTexts ==
    LET ls == SeqsUpTo(SpliceAlphabet, MaxLines)
    IN  { Join(L) : L \in ls } \cup { Join(L) \o <<NL>> : L \in ls }

SpliceContents == { <<>>, <<"y = 2">>, <<"y = 2", NL, NL>> }

SpliceChanges ==
    { Change("a.py", s, e, c) : s \in 0..MaxLines, e \in 1..MaxLines, c \in SpliceContents }
    \cup { Change("gone.py", 1, 1, <<"y = 2">>) }
    \cup { [Change("a.py", 1, 1, <<>>) EXCEPT !.has_content = FALSE] }

SpliceInit ==
    /\ files \in { [f \in FileNames |-> IF f = "a.py" THEN t ELSE <<"x = 1", NL>>] :
                      t \in SpliceTexts }
    /\ store = IndexFiles(<<>>, files, <<"a.py", "b.py">>, 1)
    /\ pc = "previewed" /\ idx = 0 /\ decision = "none" /\ log = <<>>
    /\ batch \in { <<c>> : c \in SpliceChanges }
    /\ shown = [files |-> files, store |-> store]
    /\ IndexIdle
    /\ ExtractIdle /\ DiscoverIdle
    /\ StoreRaceIdle /\ PatchRaceIdle

SpliceNext ==
    \/ ConfirmYes
    \/ ConfirmNo
    \/ ApplyNotFound
    \/ ApplyKeyError
    \/ ApplyWritten
    \/ ApplyWriteFailed
    \/ FinishBatch

SpecSplice == SpliceInit /\ [][SpliceNext]_vars

\* C11: a change with 1 <= start_line <= end_line <= n applied to a file of n
\* lines leaves the file with the lines before start_line, then the lines of
\* new_content, then the lines after end_line, and with
\* n - (end_line - start_line + 1) + |lines of new_content| lines.
SpliceResult ==
    \A n \in 1..Len(log) :
        (log[n].outcome = "applied" /\ ValidBounds(batch[n], log[n].before)) =>
            LET old == SplitLines(log[n].before)
                new == SplitLines(batch[n].new_content)
                now == SplitLines(log[n].after)
                s == batch[n].start_line
                e == batch[n].end_line
            IN  /\ now = SubSeq(old, 1, s - 1) \o new \o SubSeq(old, e + 1, Len(old))
                /\ Len(now) = Len(old) - (e - s + 1) + Len(new)

----------------------------------------------------------------------------
(* Properties of the chunks _index_file emits for one source *)

\* the decorated_definition nodes of the source, as walk_tree meets them
DecoratedNodes(text) ==
    LET nodes == WalkFrom(Split(text), 1)
    IN  { nodes[n] : n \in { m \in 1..Len(nodes) : nodes[m].type = "decorated_definition" } }

\* the 1-based line of the definition inside a decorated_definition node
InnerDefLine(text, node) == DecoratedDef(Split(text), node.start_row + 1)

\* C12: every decorated definition is emitted as exactly one chunk, from its
\* first decorator line to the end of its body, and the definition without its
\* decorators is not emitted as a chunk of its own.
DecoratedOnce ==
    xpc = "extracted" =>
        \A node \in DecoratedNodes(src) :
            /\ Cardinality({ k \in 1..Len(emitted) :
                       /\ emitted[k].type \in {"FunctionDef", "ClassDef"}
                       /\ emitted[k].start_line = node.start_row + 1
                       /\ emitted[k].end_line = node.end_row + 1
                       /\ emitted[k].content =
                              RowsText(Split(src), node.start_row, node.end_row) }) = 1
            /\ ~\E k \in 1..Len(emitted) :
                       /\ emitted[k].type \in {"FunctionDef", "ClassDef"}
                       /\ emitted[k].start_line = InnerDefLine(src, node)

----------------------------------------------------------------------------
(* CodebaseIndexer.index: file discovery.  A path is the sequence of its     *)
(* parts (Path.parts); project_path is Path.cwd() / input, an absolute path. *)

\* part.startswith('.') of a path part
StartsWithDot(part) == part \in {".git", ".venv", ".work"}

\* Path.suffix of a file name
Suffix(name) ==
    CASE name \in {"a.py", "c.py", "e.py", "f.py"} -> ".py"
      [] name \in {"b.js", "d.js"}                 -> ".js"
      [] OTHER                                     -> ""

\* the file names rglob("*.py") and rglob("*.js") match
Supported(rel) == Suffix(rel[Len(rel)]) \in {".py", ".js"}

ProjectRoots == { <<"/", "home", "proj">>, <<"/", "home", ".work", "proj">> }

TreePaths ==
    { <<"a.py">>, <<"lib", "b.js">>, <<".venv", "c.py">>, <<"node_modules", "d.js">>,
      <<"__pycache__", "e.py">>, <<"build", "f.py">>, <<"notes.txt">> }

\* get_project_path returns a directory that holds a .py or .js file
ProjectTrees == { t \in SUBSET TreePaths : \E rel \in t : Supported(rel) }

GitignoreFiles == { {}, {"build"} }

\* _discover_files: f.parts are the parts of project_path followed by those of
\* the path below it
DiscoverFiles(root, t) ==
    { rel \in t : /\ Supported(rel)
                  /\ LET parts == root \o rel
                     IN  ~\E n \in 1..Len(parts) : StartsWithDot(parts[n]) }

DiscoverInit ==
    /\ project_path \in ProjectRoots
    /\ tree \in ProjectTrees
    /\ gitignore \in GitignoreFiles
    /\ discovered = {} /\ visited = {} /\ dpc = "start"
    /\ files = [f \in FileNames |-> NoText] /\ store = <<>>
    /\ IndexIdle /\ ExtractIdle /\ PatchIdle
    /\ StoreRaceIdle /\ PatchRaceIdle

\* index() calls _discover_files
DiscoverStep ==
    /\ dpc = "start"
    /\ discovered' = DiscoverFiles(project_path, tree)
    /\ dpc' = "indexing"
    /\ UNCHANGED <<project_path, tree, gitignore, visited>>
    /\ UNCHANGED <<extractVars, projectVars, indexVars, patchVars, raceVars>>

\* one turn of the loop of index(): _index_file is called on a discovered file
IndexDiscovered(rel) ==
    /\ dpc = "indexing"
    /\ rel \in discovered \ visited
    /\ visited' = visited \cup {rel}
    /\ UNCHANGED <<project_path, tree, gitignore, discovered, dpc>>
    /\ UNCHANGED <<extractVars, projectVars, indexVars, patchVars, raceVars>>

\* the loop is over: index() returns
IndexReturn ==
    /\ dpc = "indexing"
    /\ visited = discovered
    /\ dpc' = "done"
    /\ UNCHANGED <<project_path, tree, gitignore, discovered, visited>>
    /\ UNCHANGED <<extractVars, projectVars, indexVars, patchVars, raceVars>>

DiscoverNext ==
    \/ DiscoverStep
    \/ \E rel \in TreePaths : IndexDiscovered(rel)
    \/ IndexReturn

SpecDiscover == DiscoverInit /\ [][DiscoverNext]_vars

\* the directories a walk of a project conventionally leaves out
ConventionalDirs == {"node_modules", "__pycache__"}

\* a file the walk is to index: no directory of its path below the root is a
\* dot-directory or a conventional directory, and no pattern of .gitignore
\* occurs in that path
ShouldIndex(rel) ==
    /\ \A n \in 1..(Len(rel) - 1) : ~StartsWithDot(rel[n]) /\ rel[n] \notin ConventionalDirs
    /\ \A n \in 1..Len(rel) : rel[n] \notin gitignore

\* C13: when index() has returned, a .py or .js file was indexed exactly when no
\* directory of its path below the project root is a dot-directory or a
\* conventional build or dependency directory and its path matches no
\* .gitignore pattern, whatever the parts of the root's own path.
FileDiscovery ==
    dpc = "done" =>
        \A rel \in tree : Supported(rel) => (rel \in visited <=> ShouldIndex(rel))

----------------------------------------------------------------------------
(* The sweep of _process_remaining_lines and the lines claimed before it *)

\* processed_lines when _process_remaining_lines is called
ClaimedLines(text) ==
    LET lines == Split(text)
        st0 == ImportChunk(lines, [processed |-> {}, out |-> <<>>])
    IN  WalkTree(lines, WalkFrom(lines, 1), 1, st0).processed

\* C14: every code_block chunk of the sweep is one run of consecutive unclaimed
\* lines: no line of its range is claimed, its content is the text of the lines
\* of its range, it begins where no unclaimed line of code precedes it, and it
\* ends at a blank line, at the end of the file or before a claimed line.
SweepContiguity ==
    xpc = "extracted" =>
        \A k \in 1..Len(emitted) :
            emitted[k].name = "code_block" =>
                LET c == emitted[k]
                    lines == Split(src)
                    claimed == ClaimedLines(src)
                IN  /\ 1 <= c.start_line /\ c.start_line <= c.end_line
                    /\ c.end_line <= Len(lines)
                    /\ (c.start_line..c.end_line) \cap claimed = {}
                    /\ c.content = Strip(Join(SubSeq(lines, c.start_line, c.end_line)))
                    /\ \/ c.start_line = 1
                       \/ (c.start_line - 1) \in claimed
                       \/ Kind(lines[c.start_line - 1]) \in {"blank", "comment"}
                    /\ \/ c.end_line = Len(lines)
                       \/ lines[c.end_line] = ""
                       \/ (c.end_line + 1) \in claimed

\* processed_lines when walk_tree reaches the n-th node it dispatches on
ClaimedBefore(text, n) ==
    LET lines == Split(text)
        st0 == ImportChunk(lines, [processed |-> {}, out |-> <<>>])
    IN  WalkTree(lines, SubSeq(WalkFrom(lines, 1), 1, n - 1), 1, st0).processed

\* the n-th node is a function or class definition at the top level, not the
\* definition inside a decorated_definition
TopLevelDef(nodes, n) ==
    /\ nodes[n].type \in {"function_definition", "class_definition"}
    /\ ~(n > 1 /\ nodes[n - 1].type = "decorated_definition")

\* C15: a top-level function or class definition whose first line has not been
\* claimed by an earlier chunk is emitted as one FunctionDef or ClassDef chunk
\* named after its identifier, spanning the definition.
ClaimedLineGuard ==
    xpc = "extracted" =>
        LET nodes == WalkFrom(Split(src), 1)
        IN  \A n \in 1..Len(nodes) :
                (TopLevelDef(nodes, n) /\ (nodes[n].start_row + 1) \notin ClaimedBefore(src, n)) =>
                    Cardinality({ k \in 1..Len(emitted) :
                        /\ emitted[k].type = (IF nodes[n].type = "function_definition"
                                              THEN "FunctionDef" ELSE "ClassDef")
                        /\ emitted[k].name = nodes[n].name
                        /\ emitted[k].start_line = nodes[n].start_row + 1
                        /\ emitted[k].end_line = nodes[n].end_row + 1 }) = 1

----------------------------------------------------------------------------
(* The order in which a confirmed batch is applied *)

\* the text of the file of the n-th change when the loop reaches that change:
\* what the last earlier change to the file left, or what the file held when
\* the changes were shown
DiskBefore(n) ==
    LET f == batch[n].file_path
        prev == { m \in 1..(n - 1) : batch[m].file_path = f }
    IN  IF prev = {} THEN shown.files[f] ELSE log[SetMax(prev)].after

RECURSIVE ComposeSplices(_, _, _, _)
\* the splices of the changes to file f, from the n-th on, one after the other
ComposeSplices(text, changes, f, n) ==
    IF n > Len(changes) THEN text
    ELSE ComposeSplices(IF changes[n].file_path = f /\ changes[n].has_content
                        THEN ApplySingleChange(text, changes[n]) ELSE text,
                        changes, f, n + 1)

\* C16: the changes of a confirmed batch are tried one at a time in the order
\* given; an applied change has spliced its lines, as given, into the text its
\* file held when the change was reached, after the earlier changes to the
\* file; and when the loop is over a file whose writes all succeeded holds the
\* splices of its changes composed from left to right.
ApplyOrdering ==
    /\ pc = "applying" => idx = Len(log) + 1
    /\ \A n \in 1..Len(log) :
          log[n].outcome = "applied" =>
              /\ log[n].before = DiskBefore(n)
              /\ log[n].after = ApplySingleChange(DiskBefore(n), batch[n])
    /\ pc = "done" =>
          \A f \in FileNames :
              (\A n \in 1..Len(log) :
                   batch[n].file_path = f => log[n].outcome # "write_error") =>
                  files[f] = ComposeSplices(shown.files[f], batch, f, 1)

\* two changes with line ranges inside the file were applied to one file, and
\* the result is neither the second splice alone nor the two in the other order
ApplyOrderingWitness ==
    /\ pc = "done"
    /\ \E n, m \in 1..Len(log) :
          /\ n < m
          /\ batch[n].file_path = batch[m].file_path
          /\ log[n].outcome = "applied" /\ log[m].outcome = "applied"
          /\ ValidBounds(batch[n], log[n].before) /\ ValidBounds(batch[m], log[m].before)
          /\ LET f == batch[n].file_path
                 t == shown.files[f]
             IN  /\ files[f] # ApplySingleChange(t, batch[m])
                 /\ files[f] # ApplySingleChange(ApplySingleChange(t, batch[m]), batch[n])

----------------------------------------------------------------------------
(* The line ranges of the chunks of one file *)

\* the records get_chunk_by_location's test (line 77) accepts for a line
QualifyingRecords(st, file_path, line_number) ==
    { n \in 1..Len(st) : /\ st[n].file_path = file_path
                          /\ st[n].start_line <= line_number
                          /\ line_number <= st[n].end_line }

\* C17: the chunks emitted for one file have pairwise disjoint line ranges, so
\* that in an index built from the file no line is inside the range of more
\* than one record.
NonOverlappingClaims ==
    xpc = "extracted" =>
        /\ \A j, k \in 1..Len(emitted) :
              j # k => (emitted[j].start_line..emitted[j].end_line)
                           \cap (emitted[k].start_line..emitted[k].end_line) = {}
        /\ LET st == IndexFile(<<>>, "a.py", src)
           IN  \A L \in 1..Len(Split(src)) :
                   Cardinality(QualifyingRecords(st, "a.py", L)) <= 1

====
